---- MODULE Spec2Model ----
(***************************************************************************)
(* The Spotify artist-collaboration dashboards (Scripts/2d-app.py and      *)
(* Scripts/3d-app.py) as a state machine: load_data, the stages of         *)
(* prepare_cleaned_data, setup_network and the callbacks that query the    *)
(* graph.                                                                  *)
(*                                                                         *)
(* Representation.  A Python str is a sequence of one-character strings.   *)
(* A CSV cell is [isna, toks]: NaN (an empty cell), or a str given by the  *)
(* tokens Python's tokenizer finds in it ("[", "]", "," and quoted string  *)
(* literals, each token a str).  A float64 column that may hold NaN is a   *)
(* column of [isna, val].  Quantiles, mean and standard deviation are      *)
(* compared in exact rational arithmetic (cross-multiplied integers).      *)
(***************************************************************************)
EXTENDS Integers, Sequences, FiniteSets, TLC

VARIABLES
    nodes_csv,      \* ../Data/nodes.csv: the rows as read by pd.read_csv
    edges_df,       \* self.edges_df (../Data/edges.csv)
    quicksort_ties, \* how this build's unstable sort orders equal keys
    run,            \* 1: the first launch of the process, 2: the second
    first_result,   \* top_artists_df of the first launch (kept for comparison)
    pc,             \* the statement the process is at
    error,          \* the exception that ended the process, "" if none
    nodes_df,       \* self.nodes_df
    top_artists,    \* prepare_cleaned_data's working dataset
    expanded_hits,  \* prepare_cleaned_data's expanded_hits
    grouped_hits,   \* prepare_cleaned_data's grouped_hits
    top_artists_df, \* self.top_artists_df
    G,              \* self.G: [nodes: insertion order, adj: node -> neighbours]
    degrees,        \* self.degrees
    response        \* what the last callback or method call returned

vars == <<nodes_csv, edges_df, quicksort_ties, run, first_result, pc, error,
          nodes_df, top_artists, expanded_hits, grouped_hits, top_artists_df,
          G, degrees, response>>

----------------------------------------------------------------------------
(* Sequences and Python str methods *)

Range(s) == {s[i] : i \in 1..Len(s)}

RECURSIVE Flatten(_)
Flatten(ss) == IF ss = <<>> THEN <<>> ELSE Head(ss) \o Flatten(Tail(ss))

RECURSIVE SumSeq(_)
SumSeq(s) == IF s = <<>> THEN 0 ELSE Head(s) + SumSeq(Tail(s))

UpperCase == <<"A","B","C","D","E","F","G","H","I","J","K","L","M",
               "N","O","P","Q","R","S","T","U","V","W","X","Y","Z">>
LowerCase == <<"a","b","c","d","e","f","g","h","i","j","k","l","m",
               "n","o","p","q","r","s","t","u","v","w","x","y","z">>

\* str.lower()
lower(s) ==
    [i \in 1..Len(s) |->
        IF \E k \in 1..26 : UpperCase[k] = s[i]
        THEN LowerCase[CHOOSE k \in 1..26 : UpperCase[k] = s[i]]
        ELSE s[i]]

\* sub in s
contains(s, sub) ==
    \E i \in 0..(Len(s) - Len(sub)) :
        \A j \in 1..Len(sub) : s[i + j] = sub[j]

\* s.strip(chars)
strip(s, chars) ==
    LET keep == {i \in 1..Len(s) : s[i] \notin chars}
    IN  IF keep = {} THEN <<>>
        ELSE LET lo == CHOOSE i \in keep : \A j \in keep : i <= j
                 hi == CHOOSE i \in keep : \A j \in keep : j <= i
             IN  SubSeq(s, lo, hi)

Whitespace == {" "}

\* s.replace(ch, "")
remove(s, ch) == SelectSeq(s, LAMBDA c : c # ch)

\* s.split(sep): the pieces between separators, empty pieces kept
RECURSIVE split_on(_, _)
split_on(s, sep) ==
    IF \A i \in 1..Len(s) : s[i] # sep THEN <<s>>
    ELSE LET k == CHOOSE i \in 1..Len(s) :
                     s[i] = sep /\ \A j \in 1..(i - 1) : s[j] # sep
         IN  <<SubSeq(s, 1, k - 1)>> \o split_on(SubSeq(s, k + 1, Len(s)), sep)

\* s.split(): the pieces between runs of whitespace, empty pieces dropped
split(s) == SelectSeq(split_on(s, " "), LAMBDA p : p # <<>>)

Digits == <<"0","1","2","3","4","5","6","7","8","9">>
IsDigit(c) == \E d \in 1..10 : Digits[d] = c
DigitVal(c) == (CHOOSE d \in 1..10 : Digits[d] = c) - 1

RECURSIVE DecimalVal(_)
DecimalVal(s) ==
    IF s = <<>> THEN 0
    ELSE 10 * DecimalVal(SubSeq(s, 1, Len(s) - 1)) + DigitVal(s[Len(s)])

\* int(s): [ok, val]; ok = FALSE is ValueError.  An optional sign and then
\* one or more decimal digits.
int(s) ==
    LET signed == s # <<>> /\ s[1] \in {"+", "-"}
        digits == IF signed THEN Tail(s) ELSE s
    IN  IF digits # <<>> /\ \A i \in 1..Len(digits) : IsDigit(digits[i])
        THEN [ok |-> TRUE,
              val |-> IF signed /\ s[1] = "-" THEN 0 - DecimalVal(digits)
                      ELSE DecimalVal(digits)]
        ELSE [ok |-> FALSE, val |-> 0]

----------------------------------------------------------------------------
(* Python values and eval / ast.literal_eval *)

NaNCell == [isna |-> TRUE, toks |-> <<>>]
StrCell(toks) == [isna |-> FALSE, toks |-> toks]

LBr == <<"[">>
RBr == <<"]">>
Comma == <<",">>
Lit(s) == <<"'">> \o s \o <<"'">>
IsLit(tok) == Len(tok) >= 2 /\ tok[1] = "'" /\ tok[Len(tok)] = "'"
LitVal(tok) == SubSeq(tok, 2, Len(tok) - 1)

PyList(items) == [kind |-> "list", items |-> items, s |-> <<>>]
PyStr(s) == [kind |-> "str", items |-> <<>>, s |-> s]
PyRaise == [kind |-> "raise", items |-> <<>>, s |-> <<>>]

\* eval(x) and ast.literal_eval(x) of a str x: a list display of string
\* literals (a trailing comma allowed) is that list, one string literal is
\* that str, and anything else these tokens can spell raises SyntaxError.
eval(toks) ==
    IF Len(toks) = 1 /\ IsLit(toks[1]) THEN PyStr(LitVal(toks[1]))
    ELSE IF Len(toks) >= 2 /\ toks[1] = LBr /\ toks[Len(toks)] = RBr
    THEN LET inner == SubSeq(toks, 2, Len(toks) - 1)
             wellformed ==
                 \A i \in 1..Len(inner) :
                     IF i % 2 = 1 THEN IsLit(inner[i]) ELSE inner[i] = Comma
         IN  IF wellformed
             THEN PyList([k \in 1..((Len(inner) + 1) \div 2) |->
                             LitVal(inner[2 * k - 1])])
             ELSE PyRaise
    ELSE PyRaise

top_genres ==
     ("pop" :> {<<"p","o","p">>,
          <<"k","-","p","o","p">>,
          <<"j","-","p","o","p">>,
          <<"c","a","n","t","o","p","o","p">>,
          <<"m","a","n","d","o","p","o","p">>,
          <<"s","y","n","t","h","p","o","p">>,
          <<"e","l","e","c","t","r","o","p","o","p">>})
  @@ ("rock" :> {<<"r","o","c","k">>,
          <<"h","a","r","d"," ","r","o","c","k">>,
          <<"p","u","n","k"," ","r","o","c","k">>,
          <<"a","l","t","e","r","n","a","t","i","v","e"," ","r","o","c","k">>,
          <<"i","n","d","i","e"," ","r","o","c","k">>,
          <<"c","l","a","s","s","i","c"," ","r","o","c","k">>})
  @@ ("hip-hop" :> {<<"h","i","p"," ","h","o","p">>,
          <<"r","a","p">>,
          <<"t","r","a","p">>,
          <<"g","a","n","g","s","t","a"," ","r","a","p">>,
          <<"a","l","t","e","r","n","a","t","i","v","e"," ","h","i","p"," ","h","o","p">>})
  @@ ("edm" :> {<<"e","d","m">>,
          <<"e","l","e","c","t","r","o","n","i","c">>,
          <<"h","o","u","s","e">>,
          <<"t","e","c","h","n","o">>,
          <<"d","u","b","s","t","e","p">>,
          <<"t","r","a","n","c","e">>})
  @@ ("r&b" :> {<<"r","&","b">>,
          <<"s","o","u","l">>,
          <<"n","e","o"," ","s","o","u","l">>,
          <<"f","u","n","k">>})
  @@ ("country" :> {<<"c","o","u","n","t","r","y">>,
          <<"c","o","u","n","t","r","y"," ","p","o","p">>,
          <<"o","u","t","l","a","w"," ","c","o","u","n","t","r","y">>})
  @@ ("jazz" :> {<<"j","a","z","z">>,
          <<"b","e","b","o","p">>,
          <<"s","w","i","n","g">>,
          <<"c","o","o","l"," ","j","a","z","z">>,
          <<"f","u","s","i","o","n">>})
  @@ ("classical" :> {<<"c","l","a","s","s","i","c","a","l">>,
          <<"o","r","c","h","e","s","t","r","a","l">>,
          <<"c","h","a","m","b","e","r"," ","m","u","s","i","c">>,
          <<"b","a","r","o","q","u","e">>,
          <<"r","o","m","a","n","t","i","c">>,
          <<"s","y","m","p","h","o","n","y">>})
  @@ ("latin" :> {<<"l","a","t","i","n">>,
          <<"r","e","g","g","a","e","t","o","n">>,
          <<"s","a","l","s","a">>,
          <<"b","a","c","h","a","t","a">>,
          <<"l","a","t","i","n"," ","p","o","p">>})
  @@ ("reggae" :> {<<"r","e","g","g","a","e">>,
          <<"d","u","b">>,
          <<"d","a","n","c","e","h","a","l","l">>})

Buckets == DOMAIN top_genres

----------------------------------------------------------------------------
(* prepare_cleaned_data: the two local functions *)

\* Iteration order of a Python set of str: by hash slot, and a str's hash
\* depends on the process's hash seed (PYTHONHASHSEED, random by default).
TaxonomyOrder == <<"pop", "rock", "hip-hop", "edm", "r&b", "country", "jazz",
                   "classical", "latin", "reggae">>
MaxSeed == 3
HashSeeds == 0..MaxSeed
hash_slot(b, seed) ==
    ((CHOOSE i \in 1..Len(TaxonomyOrder) : TaxonomyOrder[i] = b) * (seed + 1)) % 11

\* list(a_set)
list_of_set(S, seed) ==
    [i \in 1..Cardinality(S) |->
        CHOOSE b \in S :
            Cardinality({c \in S : hash_slot(c, seed) < hash_slot(b, seed)}) = i - 1]

\* lines 48-53: the list of tags that is matched
genre_list_of(genre_str) ==
    IF genre_str.kind = "str"
    THEN LET pieces == split_on(strip(genre_str.s, {"[", "]"}), ",")
         IN  [i \in 1..Len(pieces) |-> strip(strip(pieces[i], Whitespace), {"'"})]
    ELSE IF genre_str.kind = "list" THEN genre_str.items
    ELSE <<>>

\* mapped_genres_of with a break after the first matching bucket
mapped_genres_first_only(genre_list) ==
    LET all == {top_genre \in Buckets :
                   \E i \in 1..Len(genre_list) :
                       \E sub \in top_genres[top_genre] :
                           contains(lower(genre_list[i]), sub)}
        first(b) == \A c \in all : hash_slot(b, 0) <= hash_slot(c, 0)
    IN  {b \in all : first(b)}

\* lines 55-59: the set mapped_genres
mapped_genres_of(genre_list) ==
    {top_genre \in Buckets :
        \E i \in 1..Len(genre_list) :
            \E sub \in top_genres[top_genre] : contains(lower(genre_list[i]), sub)}

map_to_top_genres(genre_str, seed) ==
    list_of_set(mapped_genres_of(genre_list_of(genre_str)), seed)

\* line 70: one entry of the chart-hit list; ok = FALSE is the ValueError of
\* the unpacking or of int()
parse_entry(entry) ==
    LET parts == split(remove(remove(entry, "("), ")"))
    IN  IF Len(parts) = 2 /\ int(parts[2]).ok
        THEN [ok |-> TRUE, country_code |-> parts[1], hit_number |-> int(parts[2]).val]
        ELSE [ok |-> FALSE, country_code |-> <<>>, hit_number |-> 0]

\* iterating a Python value: a list gives its items, a str its characters
iterate(v) ==
    IF v.kind = "list" THEN v.items ELSE [i \in 1..Len(v.s) |-> <<v.s[i]>>]

expand_chart_hits(chart_hits_str) ==
    IF chart_hits_str.isna \/ chart_hits_str.toks = <<LBr, RBr>> THEN <<>>
    ELSE LET chart_hits == eval(chart_hits_str.toks)
         IN  IF chart_hits.kind = "raise" THEN <<>>
             ELSE LET parsed == [i \in 1..Len(iterate(chart_hits)) |->
                                    parse_entry(iterate(chart_hits)[i])]
                  IN  IF \A i \in 1..Len(parsed) : parsed[i].ok
                      THEN [i \in 1..Len(parsed) |->
                               [country_code |-> parsed[i].country_code,
                                hit_number |-> parsed[i].hit_number]]
                      ELSE <<>>

----------------------------------------------------------------------------
(* pandas: sorting, selection, float64 columns *)

NaN == [isna |-> TRUE, val |-> 0]
Num(v) == [isna |-> FALSE, val |-> v]

Min(a, b) == IF a <= b THEN a ELSE b
SetMax(S) == CHOOSE m \in S : \A x \in S : x <= m
SetMin(S) == CHOOSE m \in S : \A x \in S : m <= x
Reverse(s) == [i \in 1..Len(s) |-> s[Len(s) + 1 - i]]
\* seq[:n] for n >= 0, DataFrame.head(n)
head(s, n) == SubSeq(s, 1, Min(n, Len(s)))

\* Rows by key, largest key first; rows of equal key stay in input order
\* under a stable sort ("stable") and come in the build's own order under an
\* unstable one (represented by "reversed").
RECURSIVE by_key_desc(_, _, _, _)
by_key_desc(rows, Key(_), keys, ties) ==
    IF keys = {} THEN <<>>
    ELSE LET m == SetMax(keys)
             group == SelectSeq(rows, LAMBDA r : Key(r) = m)
         IN  (IF ties = "stable" THEN group ELSE Reverse(group))
             \o by_key_desc(rows, Key, keys \ {m}, ties)

sort_desc(rows, Key(_), ties) ==
    by_key_desc(rows, Key, {Key(rows[i]) : i \in 1..Len(rows)}, ties)

popularity_of(r) == r.popularity

\* DataFrame.nlargest(n, 'popularity'), keep='first'
nlargest(rows, n) == head(sort_desc(rows, popularity_of, "stable"), n)

\* DataFrame.sort_values(by='popularity', ascending=False): kind='quicksort'
sort_values_desc(rows, ties) == sort_desc(rows, popularity_of, ties)

\* The values of a column in ascending order
RECURSIVE ascending(_, _)
ascending(vals, keys) ==
    IF keys = {} THEN <<>>
    ELSE LET m == SetMin(keys)
         IN  SelectSeq(vals, LAMBDA v : v = m) \o ascending(vals, keys \ {m})

\* The elements of a set of integers in ascending order
sorted_set(S) ==
    [k \in 1..Cardinality(S) |->
        CHOOSE x \in S : Cardinality({y \in S : y < x}) = k - 1]

column(rows, name) == [i \in 1..Len(rows) |-> rows[i][name]]

\* 40 * Series.quantile(num / 40), linear interpolation: the position
\* (n - 1) * num / 40 lies between two neighbours of the sorted column
quantile40(vals, num) ==
    LET xs == ascending(vals, Range(vals))
        h  == (Len(xs) - 1) * num
        i  == h \div 40
        r  == h % 40
    IN  IF r = 0 THEN 40 * xs[i + 1]
        ELSE 40 * xs[i + 1] + r * (xs[i + 2] - xs[i + 1])

----------------------------------------------------------------------------
(* load_data *)

TopN == 100

\* line 26: lambda x: eval(x) if isinstance(x, str) else []
convert_genres(x) == IF x.isna THEN PyList(<<>>) ELSE eval(x.toks)

load_nodes(csv) ==
    [i \in 1..Len(csv) |->
        [spotify_id |-> csv[i].spotify_id,
         followers  |-> csv[i].followers,
         popularity |-> csv[i].popularity,
         genres     |-> convert_genres(csv[i].genres),
         chart_hits |-> csv[i].chart_hits]]

----------------------------------------------------------------------------
(* prepare_cleaned_data, stage by stage *)

\* line 84
apply_genres(rows, seed) ==
    [i \in 1..Len(rows) |->
        rows[i] @@ [cleaned_genres |-> map_to_top_genres(rows[i].genres, seed)]]

\* lines 85-86
filter_genres(rows) ==
    LET kept == SelectSeq(rows, LAMBDA r : Len(r.cleaned_genres) > 0)
    IN  [i \in 1..Len(kept) |->
            kept[i] @@ [genre_count |-> Len(kept[i].cleaned_genres)]]

\* lines 89-97
expand_all(rows) ==
    Flatten([i \in 1..Len(rows) |->
        LET chart_data == expand_chart_hits(rows[i].chart_hits)
        IN  [k \in 1..Len(chart_data) |->
                [spotify_id   |-> rows[i].spotify_id,
                 country_code |-> chart_data[k].country_code,
                 hit_number   |-> chart_data[k].hit_number]]])

\* groupby_agg with 'first' in the place of 'sum'
groupby_agg_first(hits) ==
    LET keys == sorted_set(Range(column(hits, "spotify_id")))
    IN  [k \in 1..Len(keys) |->
            LET mine == SelectSeq(hits, LAMBDA h : h.spotify_id = keys[k])
            IN  [spotify_id    |-> keys[k],
                 total_hits    |-> mine[1].hit_number,
                 num_countries |-> Cardinality(Range(column(mine, "country_code")))]]

\* lines 102-105: one row per spotify_id of expanded_hits, in key order
groupby_agg(hits) ==
    LET keys == sorted_set(Range(column(hits, "spotify_id")))
    IN  [k \in 1..Len(keys) |->
            LET mine == SelectSeq(hits, LAMBDA h : h.spotify_id = keys[k])
            IN  [spotify_id    |-> keys[k],
                 total_hits    |-> SumSeq(column(mine, "hit_number")),
                 num_countries |-> Cardinality(Range(column(mine, "country_code")))]]

\* line 108: merge(grouped_hits, on='spotify_id', how='left'): one output row
\* per pair of a left row and a matching right row, and one row of NaN for a
\* left row without a match
merge_hits(rows, grouped) ==
    Flatten([i \in 1..Len(rows) |->
        LET found == SelectSeq(grouped, LAMBDA g : g.spotify_id = rows[i].spotify_id)
        IN  IF found = <<>>
            THEN <<rows[i] @@ [total_hits |-> NaN, num_countries |-> NaN]>>
            ELSE [k \in 1..Len(found) |->
                     rows[i] @@ [total_hits    |-> Num(found[k].total_hits),
                                 num_countries |-> Num(found[k].num_countries)]]])

\* dropna_hits without the drop
dropna_hits_kept(rows) == rows

\* line 109
dropna_hits(rows) ==
    SelectSeq(rows, LAMBDA r : ~r.total_hits.isna /\ ~r.num_countries.isna)

\* fence_filter with > and < in the place of >= and <=
fence_filter_strict(rows, name) ==
    IF rows = <<>> THEN <<>>
    ELSE LET Q1  == quantile40(column(rows, name), 1)
             Q3  == quantile40(column(rows, name), 39)
             IQR == Q3 - Q1
         IN  SelectSeq(rows, LAMBDA r :
                 80 * r[name] > 2 * Q1 - 3 * IQR /\ 80 * r[name] < 2 * Q3 + 3 * IQR)

\* lines 114-122 for one column.  Of an empty column the quantiles are NaN
\* and every comparison with NaN is False.
fence_filter(rows, name) ==
    IF rows = <<>> THEN <<>>
    ELSE LET Q1  == quantile40(column(rows, name), 1)
             Q3  == quantile40(column(rows, name), 39)
             IQR == Q3 - Q1
             lower_bound == 2 * Q1 - 3 * IQR   \* 80 * (Q1 - 1.5 * IQR)
             upper_bound == 2 * Q3 + 3 * IQR   \* 80 * (Q3 + 1.5 * IQR)
         IN  SelectSeq(rows, LAMBDA r :
                 80 * r[name] >= lower_bound /\ 80 * r[name] <= upper_bound)

\* collab_count_of counting the rows an id occurs in, not its occurrences
collab_count_rows(edges, id) ==
    Cardinality({i \in 1..Len(edges) : edges[i].id_0 = id \/ edges[i].id_1 = id})

\* line 125-126: pd.concat([id_0, id_1]).value_counts(), one row per id
collab_count_of(edges, id) ==
    Cardinality({i \in 1..Len(edges) : edges[i].id_0 = id})
    + Cardinality({i \in 1..Len(edges) : edges[i].id_1 = id})

\* artist_collabs_of without value_counts: one row per occurrence of an id
artist_collabs_uncounted(edges) ==
    Flatten([i \in 1..Len(edges) |->
        <<[spotify_id |-> edges[i].id_0, collab_count |-> 1],
          [spotify_id |-> edges[i].id_1, collab_count |-> 1]>>])

artist_collabs_of(edges) ==
    LET order == sorted_set(Range(column(edges, "id_0")) \cup Range(column(edges, "id_1")))
    IN  [k \in 1..Len(order) |->
            [spotify_id |-> order[k], collab_count |-> collab_count_of(edges, order[k])]]

\* lines 129-130: the left merge and fillna(0)
merge_collabs(rows, artist_collabs) ==
    Flatten([i \in 1..Len(rows) |->
        LET found == SelectSeq(artist_collabs,
                               LAMBDA c : c.spotify_id = rows[i].spotify_id)
        IN  IF found = <<>> THEN <<rows[i] @@ [collab_count |-> 0]>>
            ELSE [k \in 1..Len(found) |->
                     rows[i] @@ [collab_count |-> found[k].collab_count]]])

\* lines 133-138: mean - 2*std <= c <= mean + 2*std with std the sample
\* standard deviation (ddof = 1): (c - mean)^2 <= 4 * var, cross-multiplied.
\* Of fewer than two rows std is NaN and every comparison False.
collab_outlier_filter(rows) ==
    LET n  == Len(rows)
        cs == column(rows, "collab_count")
        S  == SumSeq(cs)
        SS == SumSeq([i \in 1..n |-> cs[i] * cs[i]])
    IN  IF n < 2 THEN <<>>
        ELSE SelectSeq(rows, LAMBDA r :
                 (n * r.collab_count - S) * (n * r.collab_count - S) * (n - 1)
                     <= 4 * n * (n * SS - S * S))

----------------------------------------------------------------------------
(* setup_network and the graph queries *)

EmptyGraph == [nodes |-> <<>>, adj |-> <<>>]

\* dict.get / dict[key] on an insertion-ordered dict kept as its items
has_key(items, key) == \E i \in 1..Len(items) : items[i].key = key
get(items, key) == items[CHOOSE i \in 1..Len(items) : items[i].key = key].value
put_new(items, key, value) ==
    IF has_key(items, key) THEN items ELSE Append(items, [key |-> key, value |-> value])
append_new(s, x) == IF x \in Range(s) THEN s ELSE Append(s, x)

\* nx.Graph.add_edge(u, v): both nodes are added if new, v becomes a
\* neighbour of u and u of v
add_edge(g, u, v) ==
    LET nodes == append_new(append_new(g.nodes, u), v)
        adj0  == put_new(put_new(g.adj, u, <<>>), v, <<>>)
        link(adj, a, b) ==
            [i \in 1..Len(adj) |->
                IF adj[i].key = a
                THEN [key |-> a, value |-> append_new(adj[i].value, b)]
                ELSE adj[i]]
    IN  [nodes |-> nodes, adj |-> link(link(adj0, u, v), v, u)]

\* nx.from_pandas_edgelist(edges_df, 'id_0', 'id_1'): the rows in order
RECURSIVE from_pandas_edgelist(_)
from_pandas_edgelist(edges) ==
    IF edges = <<>> THEN EmptyGraph
    ELSE LET e == edges[Len(edges)]
         IN  add_edge(from_pandas_edgelist(SubSeq(edges, 1, Len(edges) - 1)),
                      e.id_0, e.id_1)

neighbors(g, n) == get(g.adj, n)

\* G.degree(n): the number of neighbours, a self-loop counted twice
degree(g, n) ==
    Len(neighbors(g, n)) + (IF n \in Range(neighbors(g, n)) THEN 1 ELSE 0)

\* dict(G.degree()): the items in node insertion order
degree_dict(g) ==
    [i \in 1..Len(g.nodes) |-> [key |-> g.nodes[i], value |-> degree(g, g.nodes[i])]]

\* G.edges(): each edge once, from the endpoint inserted first
graph_edges(g) ==
    Flatten([i \in 1..Len(g.nodes) |->
        LET n == g.nodes[i]
            seen == {g.nodes[j] : j \in 1..(i - 1)}
            nbrs == SelectSeq(neighbors(g, n), LAMBDA m : m \notin seen)
        IN  [k \in 1..Len(nbrs) |-> <<n, nbrs[k]>>]])

value_of(item) == item.value

\* get_top_artists with a sort that is not stable
get_top_artists_unstable(degs, n) ==
    LET top == head(sort_desc(degs, value_of, "reversed"), n)
    IN  [i \in 1..Len(top) |-> top[i].key]

\* lines 149-150: sorted() is stable, also with reverse=True
get_top_artists(degs, n) ==
    LET top == head(sort_desc(degs, value_of, "stable"), n)
    IN  [i \in 1..Len(top) |-> top[i].key]

\* nodes_df[nodes_df['spotify_id'] == artist_id]
rows_of(df, artist_id) == SelectSeq(df, LAMBDA r : r.spotify_id = artist_id)

\* 2d-app.py lines 152-181.  .iloc[0] of an empty selection raises
\* IndexError, self.degrees[artist_id] of an unknown node KeyError.
create_network_elements(df, g, degs, artist_ids) ==
    IF \E i \in 1..Len(artist_ids) :
          /\ rows_of(df, artist_ids[i]) = <<>>
          /\ \A j \in 1..(i - 1) :
                rows_of(df, artist_ids[j]) # <<>> /\ has_key(degs, artist_ids[j])
    THEN [status |-> "IndexError", nodes |-> <<>>, edges |-> <<>>]
    ELSE IF \E i \in 1..Len(artist_ids) : ~has_key(degs, artist_ids[i])
    THEN [status |-> "KeyError", nodes |-> <<>>, edges |-> <<>>]
    ELSE [status |-> "ok",
          nodes |-> [i \in 1..Len(artist_ids) |->
                        LET artist_info == rows_of(df, artist_ids[i])[1]
                        IN  [id |-> artist_ids[i],
                             size |-> get(degs, artist_ids[i]),
                             followers |-> artist_info.followers,
                             popularity |-> artist_info.popularity,
                             genres |-> artist_info.genres]],
          edges |-> SelectSeq(graph_edges(g), LAMBDA e :
                        e[1] \in Range(artist_ids) /\ e[2] \in Range(artist_ids))]

\* 3d-app.py lines 33-101: the subgraph on the given nodes that are in G,
\* its edges, and one marker per node.  The traces are kept as sets: the
\* order in which a subgraph view yields its nodes is the build's, and the
\* positions of spring_layout are random.
create_3d_network(df, g, degs, artist_ids) ==
    LET sub_nodes == Range(artist_ids) \cap Range(g.nodes)
        sub_edges == {e \in Range(graph_edges(g)) : e[1] \in sub_nodes /\ e[2] \in sub_nodes}
    IN  IF \E n \in sub_nodes : rows_of(df, n) = <<>>
        THEN [status |-> "IndexError", nodes |-> {}, edges |-> {}]
        ELSE [status |-> "ok",
              nodes |-> {[id |-> n,
                          size |-> get(degs, n),
                          popularity |-> rows_of(df, n)[1].popularity] : n \in sub_nodes},
              edges |-> sub_edges]

----------------------------------------------------------------------------
(* The callbacks *)

\* 2d-app.py lines 408-413: some tag of the artist contains a substring of
\* some selected bucket
genre_selected(x, selected_genres) ==
    \E k \in 1..Len(selected_genres) :
        \E j \in 1..Len(iterate(x)) :
            \E subgenre \in top_genres[selected_genres[k]] :
                contains(lower(iterate(x)[j]), subgenre)

\* 2d-app.py lines 400-418
update_network(df, g, degs, n_artists, min_pop, max_pop, selected_genres) ==
    LET in_range == SelectSeq(df, LAMBDA r :
                        r.popularity >= min_pop /\ r.popularity <= max_pop)
        filtered == IF selected_genres # <<>>
                    THEN SelectSeq(in_range, LAMBDA r :
                             genre_selected(r.genres, selected_genres))
                    ELSE in_range
        filtered_artists == column(filtered, "spotify_id")
        top_artists_n == SelectSeq(get_top_artists(degs, n_artists),
                                   LAMBDA a : a \in Range(filtered_artists))
    IN  create_network_elements(df, g, degs, top_artists_n)

\* 3d-app.py lines 149-151
update_network_3d(df, g, degs, n_artists) ==
    create_3d_network(df, g, degs, get_top_artists(degs, n_artists))

\* 2d-app.py lines 459-507: the marker colours of the two figures
RankingSize == 20
update_artist_rankings(df) ==
    LET top_20 == nlargest(df, RankingSize)
    IN  [collab_fig |-> column(top_20, "collab_count"),
         genre_fig  |-> column(top_20, "genre_count")]

\* 2d-app.py lines 513-521: the points of the scatter plot
update_collab_country_analysis(df) ==
    [i \in 1..Len(df) |-> <<df[i].collab_count, df[i].num_countries.val>>]

\* 2d-app.py lines 527-535
update_popularity_hits_analysis(df) ==
    [i \in 1..Len(df) |-> <<df[i].popularity, df[i].total_hits.val>>]

----------------------------------------------------------------------------
(* The strings of the input files *)

s_pop == <<"p","o","p">>
s_k_pop == <<"k","-","p","o","p">>
s_trap == <<"t","r","a","p">>
s_opera == <<"o","p","e","r","a">>
s_Indie_Rock == <<"I","n","d","i","e"," ","R","o","c","k">>
s_dubstep == <<"d","u","b","s","t","e","p">>
s_latin_jazz == <<"l","a","t","i","n"," ","j","a","z","z">>
s_soul == <<"s","o","u","l">>
s_POP == <<"P","O","P">>
s_folk == <<"f","o","l","k">>
s_country_pop == <<"c","o","u","n","t","r","y"," ","p","o","p">>
s_us_1 == <<"u","s"," ","(","1",")">>
s_us_2 == <<"u","s"," ","(","2",")">>
s_gb_3 == <<"g","b"," ","(","3",")">>
s_gb == <<"g","b">>
s_gb_x == <<"g","b"," ","(","x",")">>
s_pop_rock == <<"p","o","p",","," ","r","o","c","k">>

\* genres cells
g_pop       == StrCell(<<LBr, Lit(s_pop), RBr>>)
g_kpop_trap == StrCell(<<LBr, Lit(s_k_pop), Comma, Lit(s_trap), RBr>>)
g_rock      == StrCell(<<LBr, Lit(s_Indie_Rock), Comma, RBr>>)
g_opera     == StrCell(<<LBr, Lit(s_opera), RBr>>)
g_empty     == StrCell(<<LBr, RBr>>)
g_str       == StrCell(<<Lit(s_pop_rock)>>)
g_unclosed  == StrCell(<<LBr, Lit(s_pop)>>)

\* chart_hits cells
h_us        == StrCell(<<LBr, Lit(s_us_1), RBr>>)
h_us_gb     == StrCell(<<LBr, Lit(s_us_2), Comma, Lit(s_gb_3), RBr>>)
h_us_us     == StrCell(<<LBr, Lit(s_us_1), Comma, Lit(s_us_2), RBr>>)
h_gb_us     == StrCell(<<LBr, Lit(s_gb_3), Comma, Lit(s_us_2), RBr>>)
h_empty     == StrCell(<<LBr, RBr>>)
h_short     == StrCell(<<LBr, Lit(s_us_1), Comma, Lit(s_gb), RBr>>)
h_notint    == StrCell(<<LBr, Lit(s_gb_x), RBr>>)
h_unclosed  == StrCell(<<LBr, Lit(s_us_1)>>)

Artist(popularity, followers, genres, chart_hits) ==
    [popularity |-> popularity, followers |-> followers,
     genres |-> genres, chart_hits |-> chart_hits]

\* The artists the small node tables are made of
Artists ==
    { Artist(80, 5, g_pop, h_us),
      Artist(90, 7, g_kpop_trap, h_us_gb),
      Artist(80, 6, g_rock, h_us_us),
      Artist(80, 5, g_pop, h_gb_us),
      Artist(85, 5, g_opera, h_us),
      Artist(85, 5, g_empty, h_us),
      Artist(85, 5, NaNCell, h_us),
      Artist(80, 5, g_str, h_us),
      Artist(80, 5, g_unclosed, h_us),
      Artist(95, 5, g_pop, NaNCell),
      Artist(95, 5, g_pop, h_empty),
      Artist(95, 5, g_pop, h_short),
      Artist(95, 5, g_pop, h_notint),
      Artist(95, 5, g_pop, h_unclosed) }

\* A node table: the given artists with spotify_id 1, 2, ...
Table(artists) ==
    [i \in 1..Len(artists) |-> [spotify_id |-> i] @@ artists[i]]

\* k further artists, all alike, with spotify_id 101, 102, ...
Bulk(k) ==
    [i \in 1..k |-> [spotify_id |-> 100 + i] @@ Artist(70, 5, g_pop, h_us)]

MaxHead == 2
SmallTables ==
    UNION {{Table(a) : a \in [1..k -> Artists]} : k \in 0..MaxHead}

\* Node tables of more than 25 and of more than TopN rows, and one of six
\* artists that are alike but for their collaborations
BigTables ==
    { Table(<<Artist(80, 5, g_pop, h_us), Artist(85, 5, g_opera, h_us)>>) \o Bulk(99),
      Table(<<Artist(60, 0, g_kpop_trap, h_us_gb), Artist(95, 5, g_pop, h_short)>>) \o Bulk(25),
      Table(<<Artist(70, 9, g_rock, h_us_us)>>) \o Bulk(25),
      Table(<<Artist(60, 0, g_pop, h_us), Artist(66, 5, g_pop, h_us)>>) \o Bulk(25),
      Table(<<Artist(70, 5, g_pop, h_us)>>) \o Bulk(5) }

Edge(a, b) == [id_0 |-> a, id_1 |-> b]

\* The edge tables that go with the node tables above
PipelineEdges ==
    { <<>>,
      <<Edge(1, 2), Edge(2, 1), Edge(2, 2)>> }

\* The inputs of the graph queries: every edge table of up to MaxEdges rows
\* over the identifiers 1..MaxId, with a node table that knows 1 and 2 only
MaxEdges == 3
MaxId == 3
EdgeTables ==
    UNION {[1..k -> {Edge(a, b) : a, b \in 1..MaxId}] : k \in 0..MaxEdges}
GraphNodeTable ==
    Table(<<Artist(80, 5, g_pop, h_us), Artist(90, 7, g_rock, h_us_gb)>>)

\* The inputs of the genre mapping: one artist with every list of up to
\* MaxTags of these tags
Tags == {s_pop, s_k_pop, s_trap, s_opera, s_Indie_Rock, s_dubstep,
         s_latin_jazz, s_soul, s_POP, s_folk, s_country_pop}
MaxTags == 2
TagLists == UNION {[1..k -> Tags] : k \in 0..MaxTags}
\* str(a_list): the cell that holds the list
GenresCell(tags) ==
    StrCell(<<LBr>>
            \o Flatten([i \in 1..Len(tags) |->
                   IF i = 1 THEN <<Lit(tags[i])>> ELSE <<Comma, Lit(tags[i])>>])
            \o <<RBr>>)
GenreTables == {Table(<<Artist(80, 5, GenresCell(tags), h_us)>>) : tags \in TagLists}

MaxN == 3
MaxIds == 2
IdLists(g) == UNION {[1..k -> Range(g.nodes)] : k \in 0..MaxIds}

\* The inputs of the callbacks: popularity ranges and genre selections
PopRanges == {<<0, 100>>, <<85, 100>>}
GenreSelections == {<<>>, <<"rock">>}

NoResponse == [op |-> "none", args |-> <<>>, status |-> "ok", returns |-> <<>>]

----------------------------------------------------------------------------
(* The process *)

Start ==
    /\ pc = "load_data"
    /\ error = ""
    /\ run = 1
    /\ first_result = <<>>
    /\ nodes_df = <<>>
    /\ top_artists = <<>>
    /\ expanded_hits = <<>>
    /\ grouped_hits = <<>>
    /\ top_artists_df = <<>>
    /\ G = EmptyGraph
    /\ degrees = <<>>
    /\ response = NoResponse

Init ==
    /\ \/ nodes_csv \in SmallTables
       \/ nodes_csv \in BigTables
    /\ edges_df \in PipelineEdges
    /\ quicksort_ties \in {"stable", "reversed"}
    /\ Start

InitGraph ==
    /\ nodes_csv = GraphNodeTable
    /\ edges_df \in EdgeTables
    /\ quicksort_ties = "stable"
    /\ Start

InitGenres ==
    /\ nodes_csv \in GenreTables
    /\ edges_df = <<Edge(1, 2)>>
    /\ quicksort_ties = "stable"
    /\ Start

inputs == <<nodes_csv, edges_df, quicksort_ties, run, first_result>>
network == <<G, degrees, response>>
locals == <<top_artists, expanded_hits, grouped_hits>>

Raise(exception) ==
    /\ pc' = "error"
    /\ error' = exception

\* load_data, lines 23-26; eval's exception is not caught
LoadData ==
    /\ pc = "load_data"
    /\ IF \E i \in 1..Len(nodes_csv) : convert_genres(nodes_csv[i].genres).kind = "raise"
       THEN Raise("SyntaxError") /\ nodes_df' = nodes_csv
       ELSE /\ nodes_df' = load_nodes(nodes_csv)
            /\ pc' = "nlargest"
            /\ error' = error
    /\ UNCHANGED <<inputs, locals, top_artists_df, network>>

\* line 81
NLargest ==
    /\ pc = "nlargest"
    /\ top_artists' = nlargest(nodes_df, TopN)
    /\ pc' = "apply_genres"
    /\ UNCHANGED <<inputs, error, nodes_df, expanded_hits, grouped_hits,
                   top_artists_df, network>>

\* line 84, under the hash seed of this process
ApplyGenres ==
    /\ pc = "apply_genres"
    /\ \E seed \in HashSeeds : top_artists' = apply_genres(top_artists, seed)
    /\ pc' = "filter_genres"
    /\ UNCHANGED <<inputs, error, nodes_df, expanded_hits, grouped_hits,
                   top_artists_df, network>>

\* lines 85-86
FilterGenres ==
    /\ pc = "filter_genres"
    /\ top_artists' = filter_genres(top_artists)
    /\ pc' = "expand_hits"
    /\ UNCHANGED <<inputs, error, nodes_df, expanded_hits, grouped_hits,
                   top_artists_df, network>>

\* lines 89-99
ExpandHits ==
    /\ pc = "expand_hits"
    /\ expanded_hits' = expand_all(top_artists)
    /\ pc' = "groupby"
    /\ UNCHANGED <<inputs, error, nodes_df, top_artists, grouped_hits,
                   top_artists_df, network>>

\* lines 102-105; a DataFrame made of no rows has no column 'spotify_id'
\* and groupby raises KeyError
GroupBy ==
    /\ pc = "groupby"
    /\ IF expanded_hits = <<>>
       THEN Raise("KeyError") /\ grouped_hits' = grouped_hits
       ELSE /\ grouped_hits' = groupby_agg(expanded_hits)
            /\ pc' = "merge_hits"
            /\ error' = error
    /\ UNCHANGED <<inputs, nodes_df, top_artists, expanded_hits,
                   top_artists_df, network>>

\* lines 108-110
MergeHits ==
    /\ pc = "merge_hits"
    /\ top_artists' =
           head(sort_values_desc(dropna_hits(merge_hits(top_artists, grouped_hits)),
                                 quicksort_ties), TopN)
    /\ pc' = "fence_followers"
    /\ UNCHANGED <<inputs, error, nodes_df, expanded_hits, grouped_hits,
                   top_artists_df, network>>

\* lines 113-122, column = 'followers'
FenceFollowers ==
    /\ pc = "fence_followers"
    /\ top_artists' = fence_filter(top_artists, "followers")
    /\ pc' = "fence_popularity"
    /\ UNCHANGED <<inputs, error, nodes_df, expanded_hits, grouped_hits,
                   top_artists_df, network>>

\* lines 113-122, column = 'popularity'
FencePopularity ==
    /\ pc = "fence_popularity"
    /\ top_artists' = fence_filter(top_artists, "popularity")
    /\ pc' = "collabs"
    /\ UNCHANGED <<inputs, error, nodes_df, expanded_hits, grouped_hits,
                   top_artists_df, network>>

\* lines 125-130
Collabs ==
    /\ pc = "collabs"
    /\ top_artists' = merge_collabs(top_artists, artist_collabs_of(edges_df))
    /\ pc' = "collab_outliers"
    /\ UNCHANGED <<inputs, error, nodes_df, expanded_hits, grouped_hits,
                   top_artists_df, network>>

\* lines 133-140, and line 43
CollabOutliers ==
    /\ pc = "collab_outliers"
    /\ top_artists' = collab_outlier_filter(top_artists)
    /\ top_artists_df' = top_artists'
    /\ pc' = "setup_network"
    /\ UNCHANGED <<inputs, error, nodes_df, expanded_hits, grouped_hits, network>>

\* lines 142-145
SetupNetwork ==
    /\ pc = "setup_network"
    /\ G' = from_pandas_edgelist(edges_df)
    /\ degrees' = degree_dict(G')
    /\ pc' = "ready"
    /\ UNCHANGED <<inputs, error, nodes_df, locals, top_artists_df, response>>

\* Respond of an application whose get_top_artists sorts self.degrees in
\* place
RespondSortingDegrees(op, args, result) ==
    /\ pc = "ready"
    /\ pc' = "respond"
    /\ response' = [op |-> op, args |-> args,
                    status |-> result.status, returns |-> result.value]
    /\ degrees' = sort_desc(degrees, value_of, "stable")
    /\ UNCHANGED <<inputs, error, nodes_df, locals, top_artists_df, G>>

\* A call of a method or callback of the running application: the result
\* is handed to the caller
Respond(op, args, result) ==
    /\ pc = "ready"
    /\ pc' = "respond"
    /\ response' = [op |-> op, args |-> args,
                    status |-> result.status, returns |-> result.value]
    /\ UNCHANGED <<inputs, error, nodes_df, locals, top_artists_df, G, degrees>>

\* The caller has the result; the application waits for the next call
Return ==
    /\ pc = "respond"
    /\ pc' = "ready"
    /\ response' = NoResponse
    /\ UNCHANGED <<inputs, error, nodes_df, locals, top_artists_df, G, degrees>>

GetTopArtists ==
    \E n \in 0..MaxN :
        Respond("get_top_artists", <<n>>,
                [status |-> "ok", value |-> get_top_artists(degrees, n)])

CreateNetworkElements ==
    \E artist_ids \in IdLists(G) :
        LET r == create_network_elements(nodes_df, G, degrees, artist_ids)
        IN  Respond("create_network_elements", <<artist_ids>>,
                    [status |-> r.status, value |-> [nodes |-> r.nodes, edges |-> r.edges]])

Create3dNetwork ==
    \E artist_ids \in IdLists(G) :
        LET r == create_3d_network(nodes_df, G, degrees, artist_ids)
        IN  Respond("create_3d_network", <<artist_ids>>,
                    [status |-> r.status, value |-> [nodes |-> r.nodes, edges |-> r.edges]])

UpdateNetwork ==
    \E n_artists \in 0..MaxN, range \in PopRanges, selected_genres \in GenreSelections :
        LET r == update_network(nodes_df, G, degrees, n_artists,
                                range[1], range[2], selected_genres)
        IN  Respond("update_network", <<n_artists, range[1], range[2], selected_genres>>,
                    [status |-> r.status, value |-> [nodes |-> r.nodes, edges |-> r.edges]])

UpdateNetwork3d ==
    \E n_artists \in 0..MaxN :
        LET r == update_network_3d(nodes_df, G, degrees, n_artists)
        IN  Respond("update_network_3d", <<n_artists>>,
                    [status |-> r.status, value |-> [nodes |-> r.nodes, edges |-> r.edges]])

\* The three callbacks of the analysis tabs read top_artists_df; their
\* input selected_genres is not used
UpdateArtistRankings ==
    \E selected_genres \in GenreSelections :
        Respond("update_artist_rankings", <<selected_genres>>,
                [status |-> "ok", value |-> update_artist_rankings(top_artists_df)])

UpdateCollabCountryAnalysis ==
    \E selected_genres \in GenreSelections :
        Respond("update_collab_country_analysis", <<selected_genres>>,
                [status |-> "ok", value |-> update_collab_country_analysis(top_artists_df)])

UpdatePopularityHitsAnalysis ==
    \E selected_genres \in GenreSelections :
        Respond("update_popularity_hits_analysis", <<selected_genres>>,
                [status |-> "ok", value |-> update_popularity_hits_analysis(top_artists_df)])

\* The process is started a second time on the same files
Relaunch ==
    /\ pc = "ready"
    /\ run = 1
    /\ run' = 2
    /\ first_result' = top_artists_df
    /\ pc' = "load_data"
    /\ nodes_df' = <<>>
    /\ top_artists' = <<>>
    /\ expanded_hits' = <<>>
    /\ grouped_hits' = <<>>
    /\ top_artists_df' = <<>>
    /\ G' = EmptyGraph
    /\ degrees' = <<>>
    /\ response' = NoResponse
    /\ UNCHANGED <<nodes_csv, edges_df, quicksort_ties, error>>

Next ==
    \/ LoadData
    \/ NLargest
    \/ ApplyGenres
    \/ FilterGenres
    \/ ExpandHits
    \/ GroupBy
    \/ MergeHits
    \/ FenceFollowers
    \/ FencePopularity
    \/ Collabs
    \/ CollabOutliers
    \/ SetupNetwork
    \/ GetTopArtists
    \/ CreateNetworkElements
    \/ Create3dNetwork
    \/ UpdateNetwork
    \/ UpdateNetwork3d
    \/ UpdateArtistRankings
    \/ UpdateCollabCountryAnalysis
    \/ UpdatePopularityHitsAnalysis
    \/ Return
    \/ Relaunch

Spec == Init /\ [][Next]_vars

SpecGraph == InitGraph /\ [][Next]_vars

SpecGenres == InitGenres /\ [][Next]_vars

----------------------------------------------------------------------------
(* What the input cells say, read off the files by hand *)

\* genres cells none of whose tags contains a substring of any bucket
NoMatchCells == {g_opera, g_empty, NaNCell}
\* chart_hits cells that are missing, '[]' or do not parse
BadHitCells == {NaNCell, h_empty, h_short, h_notint, h_unclosed}
\* chart_hits cells that are a list with an entry that is not "(COUNTRY NUMBER)"
MalformedEntryCells == {h_short, h_notint}
\* <<sum of the hit numbers, number of distinct countries>> of the other cells
HitsOf(cell) ==
    IF cell = h_us THEN <<1, 1>>
    ELSE IF cell = h_us_gb THEN <<5, 2>>
    ELSE IF cell = h_gb_us THEN <<5, 2>>
    ELSE IF cell = h_us_us THEN <<3, 1>>
    ELSE <<0, 0>>

csv_row(id) == nodes_csv[CHOOSE i \in 1..Len(nodes_csv) : nodes_csv[i].spotify_id = id]
ids_of(rows) == {rows[i].spotify_id : i \in 1..Len(rows)}

Returned == pc \in {"setup_network", "ready", "respond"}

----------------------------------------------------------------------------
(* The claims *)

\* C1: once the top 100 are selected the working dataset has at most 100
\* rows, no later stage of prepare_cleaned_data (genre filter, chart-hit
\* join and drop, re-sort and re-truncate, the two fences, the collaboration
\* join, the mean +- 2 std filter) adds a row, and the dataset returned has
\* at most 100 rows.
C1_SizeNeverGrows ==
    [][ /\ Len(top_artists') <= TopN
        /\ Len(top_artists_df') <= TopN
        /\ pc \in {"apply_genres", "filter_genres", "expand_hits", "groupby",
                   "merge_hits", "fence_followers", "fence_popularity",
                   "collabs", "collab_outliers"}
              => Len(top_artists') <= Len(top_artists) ]_vars

\* A node table of more than 100 rows whose dataset was cut to 100 and then
\* lost rows in the later stages
C1_Witness ==
    /\ pc = "ready"
    /\ Len(nodes_df) > TopN
    /\ Len(top_artists_df) > 0
    /\ Len(top_artists_df) < TopN

\* C2: every row of the returned dataset has a non-empty cleaned_genres with
\* genre_count >= 1 and has total_hits and num_countries, num_countries >= 1;
\* an artist whose tags match no bucket or whose chart_hits is missing, '[]'
\* or unparsable is not in it.
C2_RowsHaveGenreAndHits ==
    Returned =>
        /\ \A i \in 1..Len(top_artists_df) :
              LET r == top_artists_df[i]
              IN  /\ Len(r.cleaned_genres) >= 1
                  /\ r.genre_count >= 1
                  /\ ~r.total_hits.isna
                  /\ ~r.num_countries.isna
                  /\ r.num_countries.val >= 1
        /\ \A i \in 1..Len(nodes_csv) :
              (nodes_csv[i].genres \in NoMatchCells \/ nodes_csv[i].chart_hits \in BadHitCells)
                  => nodes_csv[i].spotify_id \notin ids_of(top_artists_df)

\* A dataset was returned that is not empty, and an artist with a matching
\* genre but an unparsable chart-hit list was left out of it
C2_Witness ==
    /\ pc = "ready"
    /\ top_artists_df # <<>>
    /\ \E i \in 1..Len(nodes_csv) :
          /\ nodes_csv[i].genres \notin NoMatchCells
          /\ nodes_csv[i].chart_hits \in MalformedEntryCells
          /\ nodes_csv[i].spotify_id \notin ids_of(top_artists_df)

\* C3: when no artist survives the filtering (none matches a bucket, or none
\* has a parseable chart-hit entry) prepare_cleaned_data does not end in an
\* error.
C3_EmptyDatasetIsNoError ==
    (nodes_csv # <<>> /\ \A i \in 1..Len(nodes_csv) :
        nodes_csv[i].genres \in NoMatchCells \/ nodes_csv[i].chart_hits \in BadHitCells)
        => ~(pc = "error" /\ error = "KeyError")

\* C4: an artist whose chart-hit list has a malformed entry contributes no
\* row to expanded_hits, also when earlier entries parsed; that does not
\* abort the pipeline and leaves total_hits and num_countries of every
\* other artist as its own list gives them.
C4_MalformedEntryIsIsolated ==
    /\ \A k \in 1..Len(expanded_hits) :
          csv_row(expanded_hits[k].spotify_id).chart_hits \notin MalformedEntryCells
    /\ \A k \in 1..Len(grouped_hits) :
          <<grouped_hits[k].total_hits, grouped_hits[k].num_countries>>
              = HitsOf(csv_row(grouped_hits[k].spotify_id).chart_hits)
    /\ (\E i \in 1..Len(top_artists) :
            top_artists[i].chart_hits \in MalformedEntryCells)
          => ~(pc = "error" /\ error = "KeyError")

\* The part of C4 that is about expand_chart_hits alone: no row of
\* expanded_hits comes from a list with a malformed entry, and the
\* aggregates of the other artists are those of their own lists.
C4_ParseOnly ==
    /\ \A k \in 1..Len(expanded_hits) :
          csv_row(expanded_hits[k].spotify_id).chart_hits \notin MalformedEntryCells
    /\ \A k \in 1..Len(grouped_hits) :
          <<grouped_hits[k].total_hits, grouped_hits[k].num_countries>>
              = HitsOf(csv_row(grouped_hits[k].spotify_id).chart_hits)

\* sub occurs in tag, case ignored: tag is some prefix, then sub, then some
\* suffix, letter for letter up to case
SameLetter(a, b) == lower(<<a>>) = lower(<<b>>)
Occurs(sub, tag) ==
    \E start \in 1..(Len(tag) + 1) :
        /\ start + Len(sub) - 1 <= Len(tag)
        /\ \A j \in 1..Len(sub) : SameLetter(tag[start + j - 1], sub[j])
MatchingBuckets(tags) ==
    {B \in Buckets : \E sub \in top_genres[B] : \E i \in 1..Len(tags) : Occurs(sub, tags[i])}

\* C5: for every list of raw tags, map_to_top_genres gives exactly the
\* buckets of the ten-bucket taxonomy one of whose substrings occurs, case
\* ignored, in one of the tags: every such bucket, each once, and no other;
\* ["k-pop", "trap"] gives {pop, hip-hop}.
C5_ExactlyTheMatchingBuckets ==
    pc = "filter_genres" =>
        \A i \in 1..Len(top_artists) :
            LET r == top_artists[i]
            IN  r.genres.kind = "list" =>
                    /\ Range(r.cleaned_genres) = MatchingBuckets(r.genres.items)
                    /\ Range(r.cleaned_genres) \subseteq Range(TaxonomyOrder)
                    /\ Len(r.cleaned_genres) = Cardinality(Range(r.cleaned_genres))
                    /\ r.genres.items = <<s_k_pop, s_trap>>
                          => Range(r.cleaned_genres) = {"pop", "hip-hop"}

\* The tags ["k-pop", "trap"] were mapped, to two buckets at once
C5_Witness ==
    /\ pc = "filter_genres"
    /\ \E i \in 1..Len(top_artists) :
          /\ top_artists[i].genres.items = <<s_k_pop, s_trap>>
          /\ Len(top_artists[i].cleaned_genres) = 2

\* C6: load_data succeeds for every genres value: a value that is not a
\* string and a string that does not parse as a list become the empty
\* list, a serialized list becomes that list.
C6_LenientGenres ==
    pc # "load_data" =>
        /\ ~(pc = "error" /\ error = "SyntaxError")
        /\ \A i \in 1..Len(nodes_df) :
              /\ nodes_df[i].genres.kind = "list"
              /\ nodes_csv[i].genres \in {NaNCell, g_unclosed, g_str}
                    => nodes_df[i].genres.items = <<>>

\* What the edge table says: the identifiers in reading order, and who
\* collaborated with whom
FlatIds == Flatten([i \in 1..Len(edges_df) |-> <<edges_df[i].id_0, edges_df[i].id_1>>])
FirstSeen(n) == CHOOSE k \in 1..Len(FlatIds) :
                    FlatIds[k] = n /\ \A j \in 1..(k - 1) : FlatIds[j] # n
DistinctNeighbours(n) ==
    {m \in Range(FlatIds) :
        \E i \in 1..Len(edges_df) :
            \/ edges_df[i].id_0 = n /\ edges_df[i].id_1 = m
            \/ edges_df[i].id_1 = n /\ edges_df[i].id_0 = m}

\* C7: after setup_network, whatever the edge table (duplicate rows, rows
\* with swapped endpoints, rows with twice the same identifier), degrees[n]
\* is the number of distinct neighbours of n, for every node n.
C7_DegreeIsDistinctNeighbours ==
    pc \in {"ready", "respond"} =>
        /\ {degrees[i].key : i \in 1..Len(degrees)} = Range(FlatIds)
        /\ \A i \in 1..Len(degrees) :
              degrees[i].value = Cardinality(DistinctNeighbours(degrees[i].key))

\* C7 without the rows that have twice the same identifier
C7_WithoutSelfLoops ==
    (pc \in {"ready", "respond"} /\ \A i \in 1..Len(edges_df) : edges_df[i].id_0 # edges_df[i].id_1)
        => \A i \in 1..Len(degrees) :
              degrees[i].value = Cardinality(DistinctNeighbours(degrees[i].key))

\* C8: get_top_artists(n), n >= 0, returns min(n, number of nodes) distinct
\* nodes in order of non-increasing degrees[.]; no returned node has a lower
\* degree than an omitted one; of two nodes of equal degree the one that
\* came first in the edge table precedes the other and is returned rather
\* than the other.
C8_TopByDegree ==
    (pc = "respond" /\ response.op = "get_top_artists") =>
        LET n == response.args[1]
            r == response.returns
            deg(x) == get(degrees, x)
            omitted == Range(FlatIds) \ Range(r)
        IN  /\ Len(r) = Min(n, Cardinality(Range(FlatIds)))
            /\ Range(r) \subseteq Range(FlatIds)
            /\ \A i, j \in 1..Len(r) :
                  i < j => /\ r[i] # r[j]
                           /\ deg(r[i]) >= deg(r[j])
                           /\ deg(r[i]) = deg(r[j]) => FirstSeen(r[i]) < FirstSeen(r[j])
            /\ \A x \in Range(r) : \A y \in omitted :
                  /\ deg(x) >= deg(y)
                  /\ deg(x) = deg(y) => FirstSeen(x) < FirstSeen(y)

\* Fewer nodes were asked for than there are, and the last one returned has
\* the degree of one that was left out
C8_Witness ==
    /\ pc = "respond"
    /\ response.op = "get_top_artists"
    /\ response.returns # <<>>
    /\ \E y \in Range(FlatIds) \ Range(response.returns) :
          get(degrees, y) = get(degrees, response.returns[Len(response.returns)])

\* C9: given a node of the graph that has no row in the node table,
\* create_network_elements and create_3d_network do not end in an unhandled
\* error.
C9_MissingRowIsReported ==
    ( /\ pc = "respond"
      /\ response.op \in {"create_network_elements", "create_3d_network"}
      /\ \E i \in 1..Len(response.args[1]) :
            /\ response.args[1][i] \in Range(G.nodes)
            /\ response.args[1][i] \notin ids_of(nodes_df) )
        => response.status \notin {"IndexError", "KeyError"}

as_sets(rows) ==
    [i \in 1..Len(rows) |->
        [c \in DOMAIN rows[i] |->
            IF c = "cleaned_genres" THEN Range(rows[i][c]) ELSE rows[i][c]]]
C10_SameUpToGenreOrder ==
    (run = 2 /\ Returned) => as_sets(top_artists_df) = as_sets(first_result)

\* 80 times the bounds Q1 - 1.5 IQR and Q3 + 1.5 IQR of a column, Q1 the
\* 2.5th and Q3 the 97.5th percentile of the column
LowerBound80(rows, name) ==
    LET Q1 == quantile40(column(rows, name), 1)
        Q3 == quantile40(column(rows, name), 39)
    IN  2 * Q1 - 3 * (Q3 - Q1)
UpperBound80(rows, name) ==
    LET Q1 == quantile40(column(rows, name), 1)
        Q3 == quantile40(column(rows, name), 39)
    IN  2 * Q3 + 3 * (Q3 - Q1)
FenceColumn == IF pc = "fence_followers" THEN "followers" ELSE "popularity"

\* One pass of the fence filter: what becomes of each row that enters it
FencePass ==
    \A i \in 1..Len(top_artists) :
        LET v  == 80 * top_artists[i][FenceColumn]
            lo == LowerBound80(top_artists, FenceColumn)
            hi == UpperBound80(top_artists, FenceColumn)
            kept == top_artists[i].spotify_id \in ids_of(top_artists')
        IN  /\ (lo < v /\ v < hi) => kept
            /\ (v < lo \/ hi < v) => ~kept
            /\ (v = lo \/ v = hi) => kept

\* C11: in each pass of the fence filter (stage 5), with the bounds taken
\* from the rows that enter the pass, a row whose value is strictly between
\* the bounds is kept, a row whose value is strictly below the lower or
\* strictly above the upper bound is removed, and a row whose value equals
\* a bound is kept.
C11_FenceBoundaries ==
    [][(pc \in {"fence_followers", "fence_popularity"}) => FencePass]_vars

\* The followers pass removed a row of a dataset of more than 25 rows and
\* kept the others
C11_Witness ==
    /\ pc = "fence_popularity"
    /\ Len(top_artists) >= 25
    /\ Len(top_artists) < Len(grouped_hits)

\* The entries of a chart-hit cell, and whether two cells hold the same
\* entries in another order
Entries(cell) == SelectSeq(cell.toks, IsLit)
Times(x, s) == Cardinality({i \in 1..Len(s) : s[i] = x})
IsPermutation(a, b) ==
    /\ Len(a) = Len(b)
    /\ \A x \in Range(a) \cup Range(b) : Times(x, a) = Times(x, b)

\* C12: for every artist whose chart-hit list parses, total_hits is the sum
\* of the hit numbers of its entries and num_countries the number of
\* distinct country codes among them, and two lists that hold the same
\* entries in a different order give the same two values.
C12_HitsAreOrderIndependent ==
    pc \in {"merge_hits", "fence_followers"} =>
        /\ \A k \in 1..Len(grouped_hits) :
              <<grouped_hits[k].total_hits, grouped_hits[k].num_countries>>
                  = HitsOf(csv_row(grouped_hits[k].spotify_id).chart_hits)
        /\ \A k, l \in 1..Len(grouped_hits) :
              IsPermutation(Entries(csv_row(grouped_hits[k].spotify_id).chart_hits),
                            Entries(csv_row(grouped_hits[l].spotify_id).chart_hits))
                  => /\ grouped_hits[k].total_hits = grouped_hits[l].total_hits
                     /\ grouped_hits[k].num_countries = grouped_hits[l].num_countries
        /\ pc = "fence_followers" =>
              \A i \in 1..Len(top_artists) :
                  <<top_artists[i].total_hits.val, top_artists[i].num_countries.val>>
                      = HitsOf(csv_row(top_artists[i].spotify_id).chart_hits)

\* Two artists whose lists hold the same two entries in opposite orders
\* were aggregated
C12_Witness ==
    /\ pc = "merge_hits"
    /\ \E k, l \in 1..Len(grouped_hits) :
          /\ csv_row(grouped_hits[k].spotify_id).chart_hits = h_us_gb
          /\ csv_row(grouped_hits[l].spotify_id).chart_hits = h_gb_us

\* C13: once the application is initialised, no request (get_top_artists,
\* the 2D and the 3D update_network, the network builders, the ranking and
\* scatter callbacks) and no return from one changes nodes_df, edges_df, G,
\* degrees or top_artists_df; a request's result is computed from these
\* and its own inputs alone.
C13_RequestsLeaveStateUnchanged ==
    [][ (pc \in {"ready", "respond"} /\ pc' \in {"ready", "respond"})
            => UNCHANGED <<nodes_df, edges_df, G, degrees, top_artists_df>> ]_vars

\* The 2D update_network has answered with a network that has nodes
C13_Witness ==
    /\ pc = "respond"
    /\ response.op = "update_network"
    /\ response.status = "ok"
    /\ response.returns.nodes # <<>>

\* What the edge table says about a set of identifiers: the pairs that
\* collaborated, as unordered pairs, with both members in the set
InducedPairs(S) ==
    {{edges_df[i].id_0, edges_df[i].id_1} : i \in
        {j \in 1..Len(edges_df) : edges_df[j].id_0 \in S /\ edges_df[j].id_1 \in S}}
NoRepeats(s) == \A i, j \in 1..Len(s) : i # j => s[i] # s[j]
\* The network of a response is the induced subgraph on the given list
IsInducedSubgraph ==
    LET given == Range(response.args[1])
        net   == response.returns
    IN  /\ response.status = "ok"
        /\ IF response.op = "create_network_elements"
           THEN /\ Len(net.nodes) = Cardinality(given)
                /\ {net.nodes[i].id : i \in 1..Len(net.nodes)} = given
                /\ Len(net.edges) = Cardinality(InducedPairs(given))
                /\ {{net.edges[i][1], net.edges[i][2]} : i \in 1..Len(net.edges)}
                       = InducedPairs(given)
           ELSE /\ Cardinality(net.nodes) = Cardinality(given)
                /\ {n.id : n \in net.nodes} = given
                /\ Cardinality(net.edges) = Cardinality(InducedPairs(given))
                /\ {{e[1], e[2]} : e \in net.edges} = InducedPairs(given)

\* C14: for every graph and every list of distinct nodes of it, the network
\* of create_network_elements and the subgraph of create_3d_network have
\* exactly one node per given identifier and exactly the edges of the graph
\* whose two endpoints are both given.
C14_InducedSubgraph ==
    ( /\ pc = "respond"
      /\ response.op \in {"create_network_elements", "create_3d_network"}
      /\ NoRepeats(response.args[1]) )
        => IsInducedSubgraph

\* C14 for the lists all of whose nodes have a row in the node table
C14_WhenRowsExist ==
    ( /\ pc = "respond"
      /\ response.op \in {"create_network_elements", "create_3d_network"}
      /\ NoRepeats(response.args[1])
      /\ Range(response.args[1]) \subseteq ids_of(nodes_df) )
        => IsInducedSubgraph

\* The rows that enter stage 5: the artists that have aggregated hits, with
\* the followers and popularity of the node table
Stage4Rows == [k \in 1..Len(grouped_hits) |-> csv_row(grouped_hits[k].spotify_id)]
WithinFence(rows, name, r) ==
    /\ LowerBound80(rows, name) <= 80 * r[name]
    /\ 80 * r[name] <= UpperBound80(rows, name)
\* The rows of a sequence that satisfy a condition, as a set
Where(rows, Test(_)) == {rows[i] : i \in {j \in 1..Len(rows) : Test(rows[j])}}

\* C15: both fences of stage 5 are computed from the output of stage 4, and
\* a row survives stage 5 exactly if its followers are within the followers
\* fence and its popularity within the popularity fence of those rows.
C15_FencesAreIndependent ==
    pc = "collabs" =>
        ids_of(top_artists) =
            { r.spotify_id : r \in
                Where(Stage4Rows, LAMBDA r : /\ WithinFence(Stage4Rows, "followers", r)
                                            /\ WithinFence(Stage4Rows, "popularity", r)) }

\* What stage 5 does: the popularity fence is computed from the rows the
\* followers fence has left
C15_SecondFenceAfterFirst ==
    pc = "collabs" =>
        LET left == SelectSeq(Stage4Rows, LAMBDA r : WithinFence(Stage4Rows, "followers", r))
        IN  ids_of(top_artists) =
                { r.spotify_id : r \in
                    Where(left, LAMBDA r : WithinFence(left, "popularity", r)) }

\* Stage 6 as one step: the rows stay as they are, and each gets as its
\* collab_count the number of times its id is written in the edge table
CollabJoin ==
    /\ Len(top_artists') = Len(top_artists)
    /\ \A i \in 1..Len(top_artists) :
          /\ top_artists'[i].spotify_id = top_artists[i].spotify_id
          /\ top_artists'[i].collab_count = Times(top_artists[i].spotify_id, FlatIds)

\* C16: after stage 6 the collab_count of every row is the number of
\* occurrences of its id in the two columns of the edge table, duplicate
\* rows counted each and a row with twice the same id counted twice, 0 for
\* an id that occurs in no row; the left join adds no row and removes none.
C16_CollabCountIsOccurrences ==
    [][(pc = "collabs") => CollabJoin]_vars

\* An artist written four times in three edge rows, one of them a row with
\* twice its id, was given the count 4
C16_Witness ==
    /\ pc = "collab_outliers"
    /\ Edge(2, 2) \in Range(edges_df)
    /\ \E i \in 1..Len(top_artists) :
          top_artists[i].spotify_id = 2 /\ top_artists[i].collab_count = 4

\* Stage 7 as one step.  With n rows of counts c, sum S and sum of squares
\* SS, mean = S / n and std^2 = (n SS - S^2) / (n (n - 1)) (the sample
\* standard deviation), so |c - mean| <= 2 std is
\* (n c - S)^2 (n - 1) <= 4 n (n SS - S^2).
WithinTwoStd(rows, c) ==
    LET n  == Len(rows)
        S  == SumSeq(column(rows, "collab_count"))
        SS == SumSeq([i \in 1..n |-> rows[i].collab_count * rows[i].collab_count])
    IN  (n * c - S) * (n * c - S) * (n - 1) <= 4 * n * (n * SS - S * S)
OutlierStep ==
    /\ Len(top_artists) >= 2 =>
          \A i \in 1..Len(top_artists) :
              top_artists[i].spotify_id \in ids_of(top_artists')
                  <=> WithinTwoStd(top_artists, top_artists[i].collab_count)
    /\ (\A i, j \in 1..Len(top_artists) :
            top_artists[i].collab_count = top_artists[j].collab_count)
          => top_artists' = top_artists

\* C17: of a stage-6 output with at least one row, stage 7 keeps exactly
\* the rows whose collab_count is within mean - 2 std and mean + 2 std, so
\* a dataset whose rows all have the same collab_count, a dataset of one
\* row included, leaves stage 7 as it entered.
C17_MeanTwoStdFilter ==
    [][(pc = "collab_outliers" /\ Len(top_artists) >= 1) => OutlierStep]_vars

\* C17 for the datasets of two or more rows
C17_TwoOrMoreRows ==
    [][(pc = "collab_outliers" /\ Len(top_artists) >= 2) => OutlierStep]_vars

====
